---- MODULE Spec2Model ----
(***************************************************************************)
(* A model of sanic-ext's OpenAPI schema engine                            *)
(* (sanic_ext/extensions/openapi/types.py) and of the validate_schema      *)
(* request wrapper (sanic_ext/extras/validation/decorator.py).             *)
(*                                                                         *)
(* Python values are tagged records; the tag k is the value's kind.  A     *)
(* Python dict is a function from string keys to values (key order is not  *)
(* modelled), a Python list is a sequence.  A raised exception is the      *)
(* value [k |-> "raise", exc |-> ...], which every caller propagates.      *)
(***************************************************************************)
EXTENDS FiniteSets, Integers, Sequences, TLC

\* ------------------------------------------------------------------ bounds
MaxInt == 1
MaxEnumLen == 2
MaxListLen == 2
MaxAttrs == 2

\* ----------------------------------------------------------- Python values
PyNone == [k |-> "none"]
PyBool(b) == [k |-> "bool", b |-> b]
PyInt(n) == [k |-> "int", n |-> n]
PyFloat(n) == [k |-> "float", n |-> n]
PyStr(s) == [k |-> "str", s |-> s]
PyBytes(s) == [k |-> "bytes", s |-> s]
PyByteArray(s) == [k |-> "bytearray", s |-> s]
PyDate(s) == [k |-> "date", s |-> s]
PyTime(s) == [k |-> "time", s |-> s]
PyDateTime(s) == [k |-> "datetime", s |-> s]
PyUUID(s) == [k |-> "UUID", s |-> s]
PyList(items) == [k |-> "list", items |-> items]
PyDict(d) == [k |-> "dict", d |-> d]
PyType(name) == [k |-> "type", name |-> name]
PyAny == [k |-> "Any"]
PyUnion(args) == [k |-> "Union", args |-> args]
PyAlias(origin, args) == [k |-> "alias", origin |-> origin, args |-> args]
PyEnum(members) == [k |-> "enumclass", members |-> members]
PyMember(value) == [k |-> "member", value |-> value]
PyClass(hints, attrs, fields) == [k |-> "class", hints |-> hints, attrs |-> attrs, fields |-> fields]
Node(cls, fields) == [k |-> "node", cls |-> cls, fields |-> fields]
Raise(exc) == [k |-> "raise", exc |-> exc]

NoneType == PyType("NoneType")
EmptyDict == [key \in {} |-> PyNone]
IsRaise(v) == v.k = "raise"
IsNode(v) == v.k = "node"

\* bool(value): Python truthiness
Truthy(v) ==
  CASE v.k = "none" -> FALSE
    [] v.k = "bool" -> v.b
    [] v.k \in {"int", "float"} -> v.n # 0
    [] v.k \in {"str", "bytes", "bytearray"} -> v.s # ""
    [] v.k = "list" -> Len(v.items) > 0
    [] v.k = "dict" -> DOMAIN v.d # {}
    [] OTHER -> TRUE

\* type(value) for the kinds Schema.make dispatches on by type identity
TypeOf(v) ==
  IF v.k \in {"bool", "int", "float", "str", "bytes", "bytearray", "date",
              "time", "datetime", "UUID", "list", "dict"}
  THEN v.k
  ELSE IF v.k = "enumclass" THEN "EnumMeta"
  ELSE IF v.k = "none" THEN "NoneType"
  ELSE "other"

\* str.startswith over the key names the model uses
XDashKeys == {"x-tag", "x-"}
UnderscoreKeys == {"_fields", "_secret", "__nullable__", "__ignore__"}
StartsWithXDash(key) == key \in XDashKeys
StartsWithUnderscore(key) == key \in UnderscoreKeys

\* ----------------------------------------------------------- node classes
SchemaAttrs ==
  {"title", "description", "type", "format", "nullable", "required",
   "default", "example", "oneOf", "anyOf", "allOf", "additionalProperties",
   "multipleOf", "maximum", "exclusiveMaximum", "minimum", "exclusiveMinimum",
   "maxLength", "minLength", "pattern", "enum"}
ObjectAttrs == {"properties", "maxProperties", "minProperties"}
ArrayAttrs == {"items", "maxItems", "minItems", "uniqueItems"}

PrimitiveClasses ==
  {"Boolean", "Integer", "Long", "Float", "Double", "String", "Byte",
   "Binary", "Date", "Time", "DateTime", "Password", "Email", "UUID"}
\* Every class of types.py inherits __nullable__ = [] and __ignore__ = [].
\* Definition.serialize also provides for a class attribute that is None or
\* a non-empty list (the attribute is Optional[List[str]]); two subclasses
\* of Schema that override it stand for those: NoNullable sets
\* __nullable__ = None, KeepDefault sets __nullable__ = ["default"] and
\* __ignore__ = ["title"]
OverridingClasses == {"NoNullable", "KeepDefault"}
SchemaClasses ==
  PrimitiveClasses \cup {"Schema", "AnyValue", "Object", "Array"} \cup OverridingClasses
Classes == SchemaClasses \cup {"Definition"}

\* the annotations get_type_hints(cls) returns, class by class
TypeHints(cls) ==
  LET private == {"__nullable__", "__ignore__"} IN
  CASE cls = "Definition" -> private
    [] cls = "Object" -> private \cup SchemaAttrs \cup ObjectAttrs
    [] cls = "Array" -> private \cup SchemaAttrs \cup ArrayAttrs
    [] OTHER -> private \cup SchemaAttrs

\* __nullable__ of a class
NullableOf(cls) ==
  CASE cls = "NoNullable" -> PyNone
    [] cls = "KeepDefault" -> PyList(<<PyStr("default")>>)
    [] OTHER -> PyList(<<>>)

\* __ignore__ of a class
IgnoreOf(cls) ==
  CASE cls = "KeepDefault" -> PyList(<<PyStr("title")>>)
    [] OTHER -> PyList(<<>>)

\* the keyword arguments a primitive variant's __init__ adds
Baked(cls) ==
  CASE cls = "Boolean" -> ("type" :> PyStr("boolean"))
    [] cls = "Integer" -> ("type" :> PyStr("integer")) @@ ("format" :> PyStr("int32"))
    [] cls = "Long" -> ("type" :> PyStr("integer")) @@ ("format" :> PyStr("int64"))
    [] cls = "Float" -> ("type" :> PyStr("number")) @@ ("format" :> PyStr("float"))
    [] cls = "Double" -> ("type" :> PyStr("number")) @@ ("format" :> PyStr("double"))
    [] cls = "String" -> ("type" :> PyStr("string"))
    [] cls = "Byte" -> ("type" :> PyStr("string")) @@ ("format" :> PyStr("byte"))
    [] cls = "Binary" -> ("type" :> PyStr("string")) @@ ("format" :> PyStr("binary"))
    [] cls = "Date" -> ("type" :> PyStr("string")) @@ ("format" :> PyStr("date"))
    [] cls = "Time" -> ("type" :> PyStr("string")) @@ ("format" :> PyStr("time"))
    [] cls = "DateTime" -> ("type" :> PyStr("string")) @@ ("format" :> PyStr("date-time"))
    [] cls = "Password" -> ("type" :> PyStr("string")) @@ ("format" :> PyStr("password"))
    [] cls = "Email" -> ("type" :> PyStr("string")) @@ ("format" :> PyStr("email"))
    [] cls = "UUID" -> ("type" :> PyStr("string")) @@ ("format" :> PyStr("uuid"))
    [] cls = "Object" -> ("type" :> PyStr("object"))
    [] cls = "Array" -> ("type" :> PyStr("array"))
    [] OTHER -> EmptyDict

\* _properties(self) of a node instance: its instance __dict__ holds only
\* _fields, so the result is the class's public annotations
NodeProperties(cls) == {key \in TypeHints(cls) : ~StartsWithUnderscore(key)}

guard(cls, fields) ==
  [key \in {f \in DOMAIN fields : f \in NodeProperties(cls) \/ StartsWithXDash(f)}
     |-> fields[key]]

\* Definition.__init__
DefinitionInit(cls, kwargs) == Node(cls, guard(cls, kwargs))

\* f(fixed..., **kwargs): a keyword given twice is a TypeError
CallKw(cls, fixed, kwargs) ==
  IF DOMAIN fixed \cap DOMAIN kwargs # {}
  THEN Raise("TypeError")
  ELSE DefinitionInit(cls, fixed @@ kwargs)

\* Boolean.__init__ .. UUID.__init__
PrimitiveInit(cls, kwargs) == CallKw(cls, Baked(cls), kwargs)

\* Cls(default=value, **kwargs) followed by Cls.__init__
PrimitiveWithDefault(cls, value, kwargs) ==
  IF "default" \in DOMAIN kwargs
  THEN Raise("TypeError")
  ELSE PrimitiveInit(cls, ("default" :> value) @@ kwargs)

Without(kwargs, key) == [f \in DOMAIN kwargs \ {key} |-> kwargs[f]]

\* Object.__init__(properties, **kwargs)
ObjectInit(properties, kwargs) ==
  LET kw == IF Truthy(properties) THEN ("properties" :> properties) @@ kwargs
            ELSE kwargs
  IN CallKw("Object", Baked("Object"), kw)

\* sanic_ext.utils.typing.is_generic: true of parameterized generic aliases
is_generic(v) == v.k = "alias"

\* typing.get_origin / typing.get_args
get_origin(v) ==
  CASE v.k = "Union" -> "Union"
    [] v.k = "alias" -> v.origin
    [] OTHER -> "None"
get_args(v) == IF v.k \in {"Union", "alias"} THEN v.args ELSE <<>>

InList(x, list) == \E i \in 1..Len(list.items) : list.items[i] = x

\* _properties(value) where value is not a node instance: the class's
\* annotations overridden by its truthy class attributes, names starting
\* with "_" removed; values without annotations or __dict__ give {}
Properties(value) ==
  IF value.k = "class"
  THEN LET truthyAttrs == {a \in DOMAIN value.attrs : Truthy(value.attrs[a])}
           merged == [a \in truthyAttrs |-> value.attrs[a]] @@ value.hints
       IN [key \in {f \in DOMAIN merged : ~StartsWithUnderscore(f)} |-> merged[key]]
  ELSE EmptyDict

FieldInfoStep(data, field_key, value) ==
  IF ~Truthy(value) THEN data
  ELSE IF value.k = "dict" THEN value.d @@ data
  ELSE (field_key :> value) @@ data

\* _get_field_info(field_info); a missing attribute reads as None
get_field_info(field_info) ==
  LET d1 == FieldInfoStep(EmptyDict, "description", field_info.description)
      d2 == FieldInfoStep(d1, "extra", field_info.extra)
  IN IF "default_value" \in DOMAIN d2
     THEN ("default" :> d2["default_value"]) @@ Without(d2, "default_value")
     ELSE d2

AnyRaise(f) == \E key \in DOMAIN f : IsRaise(f[key])

TypeName(v) == v.name

\* the class Schema.make builds for a scalar type name
ScalarTypeNames ==
  {"bool", "int", "float", "str", "bytes", "bytearray", "date", "time",
   "datetime", "UUID"}
\* a faulty variant of ClassOfType that exchanges the classes of bytes and
\* bytearray; C1 tells the two apart
ClassOfType_swapped(name) ==
  CASE name = "bool" -> "Boolean"
    [] name = "int" -> "Integer"
    [] name = "float" -> "Float"
    [] name = "str" -> "String"
    [] name = "bytes" -> "Binary"
    [] name = "bytearray" -> "Byte"
    [] name = "date" -> "Date"
    [] name = "time" -> "Time"
    [] name = "datetime" -> "DateTime"
    [] name = "UUID" -> "UUID"
ClassOfType(name) ==
  CASE name = "bool" -> "Boolean"
    [] name = "int" -> "Integer"
    [] name = "float" -> "Float"
    [] name = "str" -> "String"
    [] name = "bytes" -> "Byte"
    [] name = "bytearray" -> "Binary"
    [] name = "date" -> "Date"
    [] name = "time" -> "Time"
    [] name = "datetime" -> "DateTime"
    [] name = "UUID" -> "UUID"

RECURSIVE make(_, _), ObjectMake(_, _), ArrayInit(_, _)

\* a faulty variant of MakeUnion that does not set nullable when None is
\* among the alternatives; C2 tells the two apart
MakeUnion_dropsNullable(value, kwargs) ==
  LET args == get_args(value)
      filtered == SelectSeq(args, LAMBDA arg : arg # NoneType)
  IN IF Len(filtered) = 1
     THEN make(filtered[1], kwargs)
     ELSE LET alts == [i \in 1..Len(filtered) |-> make(filtered[i], EmptyDict)]
          IN IF AnyRaise(alts) THEN Raise("TypeError")
             ELSE CallKw("Schema", ("oneOf" :> PyList(alts)), kwargs)

\* the branch of Schema.make for typing.Union / typing.Optional
MakeUnion(value, kwargs) ==
  LET args == get_args(value)
      kw == IF \E i \in 1..Len(args) : args[i] = NoneType
            THEN ("nullable" :> PyBool(TRUE)) @@ kwargs
            ELSE kwargs
      filtered == SelectSeq(args, LAMBDA arg : arg # NoneType)
  IN IF Len(filtered) = 1
     THEN make(filtered[1], kw)
     ELSE LET alts == [i \in 1..Len(filtered) |-> make(filtered[i], EmptyDict)]
          IN IF AnyRaise(alts) THEN Raise("TypeError")
             ELSE CallKw("Schema", ("oneOf" :> PyList(alts)), kw)

\* a faulty variant of MakeList whose item schema for an empty list is not
\* nullable; C7 tells the two apart
MakeList_plainItems(value, kwargs) ==
  LET n == Len(value.items)
      elems == [i \in 1..n |-> make(value.items[i], EmptyDict)]
      schema == IF n = 0 THEN DefinitionInit("Schema", EmptyDict)
                ELSE IF n = 1 THEN elems[1]
                ELSE IF AnyRaise(elems) THEN Raise("TypeError")
                ELSE DefinitionInit("Schema", ("oneOf" :> PyList(elems)))
  IN IF IsRaise(schema) THEN schema ELSE ArrayInit(schema, kwargs)

\* the branch of Schema.make for a value whose type is list
MakeList(value, kwargs) ==
  LET n == Len(value.items)
      elems == [i \in 1..n |-> make(value.items[i], EmptyDict)]
      schema == IF n = 0 THEN DefinitionInit("Schema", ("nullable" :> PyBool(TRUE)))
                ELSE IF n = 1 THEN elems[1]
                ELSE IF AnyRaise(elems) THEN Raise("TypeError")
                ELSE DefinitionInit("Schema", ("oneOf" :> PyList(elems)))
  IN IF IsRaise(schema) THEN schema ELSE ArrayInit(schema, kwargs)

\* a faulty variant of MakeEnum that reflects the type of the first member
\* value whatever the other members are; C5 tells the two apart
MakeEnum_firstType(value, kwargs) ==
  LET available == value.members
  IN make(PyType(TypeOf(available[1])), ("enum" :> PyList(available)))

\* the branch of Schema.make for an Enum class
MakeEnum(value, kwargs) ==
  LET available == value.members
      available_types == {TypeOf(available[i]) : i \in 1..Len(available)}
      schema_type == IF Cardinality(available_types) = 1
                     THEN PyType(CHOOSE t \in available_types : TRUE)
                     ELSE PyStr("string")
  IN make(schema_type, ("enum" :> PyList(available)))

\* the branch of Schema.make for a value returned as it is
MakeSchema(value, kwargs) == value

\* a faulty variant of MakeValue that passes the value as default for every
\* scalar kind; C10 tells the two apart
MakeValue_alwaysDefault(value, kwargs) ==
  PrimitiveWithDefault(ClassOfType(TypeOf(value)), value, kwargs)

\* the branch of Schema.make for runtime values of scalar kinds
MakeValue(value, kwargs) ==
  IF TypeOf(value) \in {"bool", "int", "float", "str", "bytes", "bytearray"}
  THEN PrimitiveWithDefault(ClassOfType(TypeOf(value)), value, kwargs)
  ELSE PrimitiveInit(ClassOfType(TypeOf(value)), kwargs)

\* Schema.make(value, **kwargs)
make(value, kwargs) ==
  IF get_origin(value) = "Union" THEN MakeUnion(value, kwargs)
  ELSE IF IsNode(value) /\ value.cls \in SchemaClasses THEN MakeSchema(value, kwargs)
  ELSE IF value.k = "type" /\ TypeName(value) \in ScalarTypeNames
       THEN PrimitiveInit(ClassOfType(TypeName(value)), kwargs)
  ELSE IF value = PyAny THEN DefinitionInit("AnyValue", kwargs)
  ELSE IF TypeOf(value) \in ScalarTypeNames THEN MakeValue(value, kwargs)
  ELSE IF TypeOf(value) = "list" THEN MakeList(value, kwargs)
  ELSE IF TypeOf(value) = "dict" THEN ObjectMake(value, kwargs)
  ELSE IF is_generic(value) /\ get_origin(value) = "dict" /\ Len(get_args(value)) = 2
       THEN LET ap == make(get_args(value)[2], EmptyDict)
                kw == ("additionalProperties" :> ap) @@ kwargs
            IN IF IsRaise(ap) THEN ap
               ELSE ObjectInit(IF "properties" \in DOMAIN kw THEN kw["properties"] ELSE PyNone,
                               Without(kw, "properties"))
  ELSE IF is_generic(value) /\ get_origin(value) = "list"
       THEN LET items == make(get_args(value)[1], EmptyDict)
            IN IF IsRaise(items) THEN items ELSE ArrayInit(items, kwargs)
  ELSE IF TypeOf(value) = "EnumMeta" THEN MakeEnum(value, kwargs)
  ELSE ObjectMake(value, kwargs)

\* Array.__init__(items, **kwargs)
ArrayInit(items, kwargs) ==
  IF "items" \in DOMAIN kwargs THEN Raise("TypeError")
  ELSE LET schema == make(items, EmptyDict)
       IN IF IsRaise(schema) THEN schema
          ELSE CallKw("Array", Baked("Array") @@ ("items" :> schema), kwargs)

\* Object.make(value, **kwargs)
ObjectMake(value, kwargs) ==
  LET props == Properties(value)
      hasFields == value.k = "class" /\ value.fields # PyNone
      fields == IF hasFields THEN value.fields ELSE PyNone
      missing == hasFields /\ Truthy(fields) /\ \E key \in DOMAIN props : key \notin DOMAIN fields.d
      field_info(key) == IF hasFields /\ Truthy(fields)
                         THEN get_field_info(fields.d[key])
                         ELSE EmptyDict
      disabled(key) == /\ "disable_doc" \in DOMAIN field_info(key)
                       /\ Truthy(field_info(key)["disable_doc"])
      kept == {key \in DOMAIN props : ~disabled(key)}
      properties == [key \in kept |-> make(props[key], field_info(key))]
  IN IF missing THEN Raise("KeyError")
     ELSE IF AnyRaise(properties) THEN Raise("TypeError")
     ELSE IF "properties" \in DOMAIN kwargs THEN Raise("TypeError")
     ELSE ObjectInit(PyDict(properties), kwargs)

\* Definition._value
value_(v) == IF v.k = "member" THEN v.value ELSE v

RECURSIVE serialize_(_), serialize(_)

\* _serialize(value)
serialize_(v) ==
  CASE v.k = "node" -> serialize(v)
    [] v.k = "enumclass" -> PyList(v.members)
    [] v.k = "dict" -> PyDict([key \in DOMAIN v.d |-> serialize_(v.d[key])])
    [] v.k = "list" -> PyList([i \in 1..Len(v.items) |-> serialize_(v.items[i])])
    [] OTHER -> v

\* a faulty variant of Retained without the isinstance(__nullable__, list)
\* test, so that None counts as an empty list; C3 tells the two apart
Retained_noListCheck(cls, key, v) ==
  /\ ~InList(PyStr(key), IgnoreOf(cls))
  /\ \/ Truthy(v)
     \/ ~Truthy(NullableOf(cls))
     \/ InList(PyStr(key), NullableOf(cls))

\* the condition under which Definition.serialize keeps the key
Retained(cls, key, v) ==
  /\ ~InList(PyStr(key), IgnoreOf(cls))
  /\ \/ Truthy(v)
     \/ /\ NullableOf(cls).k = "list"
        /\ (~Truthy(NullableOf(cls)) \/ InList(PyStr(key), NullableOf(cls)))

\* Definition.serialize(self)
serialize(node) ==
  LET s == serialize_(PyDict(node.fields)).d
  IN PyDict([key \in {f \in DOMAIN s : Retained(node.cls, f, s[f])} |-> value_(s[key])])

\* --------------------------------------------------------------- inputs
SeqsUpTo(S, n) == UNION {[1..m -> S] : m \in 0..n}

ScalarTypes == {PyType(name) : name \in ScalarTypeNames}
ScalarValues ==
  {PyBool(TRUE), PyBool(FALSE), PyStr(""), PyStr("a"), PyBytes("ab"),
   PyByteArray("ab"), PyDate("2020-01-02"), PyTime("10:30"),
   PyDateTime("2020-01-02T10:30"), PyUUID("u-1")}
    \cup {PyInt(n) : n \in 0..MaxInt} \cup {PyFloat(n) : n \in 0..MaxInt}
EnumValues == {PyInt(n) : n \in 0..MaxInt} \cup {PyStr("x")}
EnumClasses == {PyEnum(m) : m \in SeqsUpTo(EnumValues, MaxEnumLen) \ {<<>>}}
UnionMembers == {PyType("int"), PyType("str"), PyType("bool")}
Unions ==
  {PyUnion(<<t, NoneType>>) : t \in ScalarTypes \cup EnumClasses}
    \cup {PyUnion(<<NoneType, t>>) : t \in ScalarTypes}
    \cup {PyUnion(<<a, b, NoneType>>) : a \in UnionMembers, b \in UnionMembers \ {PyType("bool")}}
    \cup {PyUnion(<<a, b>>) : a \in UnionMembers, b \in UnionMembers \ {PyType("bool")}}
WellFormed(u) == \A i, j \in 1..Len(u.args) : i # j => u.args[i] # u.args[j]
ListElems == {PyInt(0), PyStr("a"), PyBool(TRUE)}
Lists == {PyList(items) : items \in SeqsUpTo(ListElems, MaxListLen)}
Aliases ==
  {PyAlias("list", <<t>>) : t \in ScalarTypes}
    \cup {PyAlias("dict", <<PyType("str"), t>>) : t \in ScalarTypes}
BuiltNodes ==
  {PrimitiveInit("Integer", EmptyDict),
   PrimitiveInit("String", ("description" :> PyStr("d"))),
   DefinitionInit("Schema", ("nullable" :> PyBool(FALSE))),
   ObjectInit(PyNone, EmptyDict)}
PlainClasses ==
  {PyClass(("id" :> PyType("UUID")) @@ ("name" :> PyType("str")), EmptyDict, PyNone),
   PyClass(("name" :> PyType("str")) @@ ("_secret" :> PyType("int")),
           ("name" :> PyStr("a")), PyNone),
   PyClass(("count" :> PyType("int")), ("count" :> PyInt(0)), PyNone)}
OtherValues == {PyNone, PyAny, PyDict(("a" :> PyInt(1))), PyDict(EmptyDict)}

\* model classes that expose __fields__: a public field a of every field
\* type with every field_info, a public field b, and a private annotation
FieldTypes ==
  {PyType("int"), PyType("str"), PyUnion(<<PyType("int"), NoneType>>),
   PyEnum(<<PyInt(0), PyInt(1)>>), PyAlias("list", <<PyType("str")>>)}
Descriptions == {PyNone, PyStr(""), PyStr("d")}
Extras ==
  {PyNone, PyDict(EmptyDict),
   PyDict(("disable_doc" :> PyBool(TRUE))),
   PyDict(("disable_doc" :> PyBool(FALSE))),
   PyDict(("default_value" :> PyInt(1))),
   PyDict(("default_value" :> PyInt(1)) @@ ("default" :> PyInt(0))),
   PyDict(("x-tag" :> PyStr("v"))),
   PyDict(("foo" :> PyInt(1)))}
FieldInfos == [description : Descriptions, extra : Extras]
Models ==
  {PyClass(("a" :> t) @@ ("b" :> PyType("str")) @@ ("_secret" :> PyType("int")),
           EmptyDict,
           PyDict(("a" :> fa) @@ ("b" :> fb))) :
     t \in FieldTypes, fa \in FieldInfos,
     fb \in {[description |-> PyStr("d"), extra |-> PyNone],
             [description |-> PyNone, extra |-> PyDict(("disable_doc" :> PyBool(TRUE)))]}}

MakeInputs ==
  ScalarTypes \cup ScalarValues \cup EnumClasses \cup {u \in Unions : WellFormed(u)}
    \cup Lists \cup Aliases \cup BuiltNodes \cup PlainClasses \cup OtherValues

\* keyword overrides: none, or one key
Overrides ==
  {EmptyDict,
   ("nullable" :> PyBool(TRUE)),
   ("description" :> PyStr("d")),
   ("default" :> PyInt(1)),
   ("format" :> PyStr("int64")),
   ("x-tag" :> PyStr("v")),
   ("foo" :> PyInt(1))}

\* attribute values a constructor may be given, key by key
AttrValues(key) ==
  CASE key = "type" -> {PyStr("custom")}
    [] key = "format" -> {PyStr("int64")}
    [] key = "nullable" -> {PyBool(FALSE), PyBool(TRUE)}
    [] key = "default" -> {PyInt(0), PyMember(PyInt(0))}
    [] key = "description" -> {PyStr("")}
    [] key = "title" -> {PyStr("t")}
    [] key = "enum" -> {PyList(<<>>)}
    [] key = "items" -> {PyType("int")}
    [] key = "properties" -> {PyDict(EmptyDict), PyDict(("a" :> PrimitiveInit("String", EmptyDict)))}
    [] key = "x-tag" -> {PyStr("")}
    [] OTHER -> {PyInt(1)}
AttrKeys ==
  {"type", "format", "nullable", "default", "description", "title", "enum",
   "items", "properties", "x-tag", "foo", "xtra", "_fields"}
AttrMaps ==
  UNION {{f \in [K -> UNION {AttrValues(key) : key \in K}] :
            \A key \in K : f[key] \in AttrValues(key)} :
         K \in {K \in SUBSET AttrKeys : Cardinality(K) <= MaxAttrs}}

\* Cls(**attrs): the constructor of each class
Construct(cls, attrs) ==
  CASE cls \in PrimitiveClasses -> PrimitiveInit(cls, attrs)
    [] cls = "Object" ->
         ObjectInit(IF "properties" \in DOMAIN attrs THEN attrs["properties"] ELSE PyNone,
                    Without(attrs, "properties"))
    [] cls = "Array" -> ArrayInit(attrs["items"], Without(attrs, "items"))
    [] OTHER -> DefinitionInit(cls, attrs)

\* ------------------------------------------------- validation collaborators
\* the model classes given to validate_schema, as their type hints
QueryModel ==
  [hints |-> ("q" :> PyType("int"))
               @@ ("tags" :> PyUnion(<<PyAlias("list", <<PyType("str")>>), NoneType>>))]
BodyModel ==
  [hints |-> ("name" :> PyType("str")) @@ ("age" :> PyUnion(<<PyType("int"), NoneType>>))]

\* request.args / request.form: each key present maps to its list of values
QueryData ==
  {d \in UNION {[K -> {<<"1">>, <<"abc">>, <<"t", "u">>}] : K \in SUBSET {"q", "tags"}} :
     /\ "q" \in DOMAIN d => d["q"] \in {<<"1">>, <<"abc">>}
     /\ "tags" \in DOMAIN d => d["tags"] = <<"t", "u">>}
FormData ==
  {d \in UNION {[K -> {<<"n">>, <<"1">>, <<"abc">>}] : K \in SUBSET {"name", "age"}} :
     /\ "name" \in DOMAIN d => d["name"] = <<"n">>
     /\ "age" \in DOMAIN d => d["age"] \in {<<"1">>, <<"abc">>}}

ARRAY_TYPES == {"list", "tuple"}

has_array_type(hint_value) ==
  LET list_args == get_args(hint_value)
  IN \E i \in 1..Len(list_args) : get_origin(list_args[i]) \in ARRAY_TYPES

\* RequestParameters.get / RequestParameters.getlist
RawGet(raw_data, key) ==
  IF key \in DOMAIN raw_data THEN PyStr(raw_data[key][1]) ELSE PyNone
RawGetList(raw_data, key) ==
  IF key \in DOMAIN raw_data
  THEN PyList([i \in 1..Len(raw_data[key]) |-> PyStr(raw_data[key][i])])
  ELSE PyNone

clean_data(schema, raw_data) ==
  [hint_key \in DOMAIN schema.hints |->
     IF has_array_type(schema.hints[hint_key])
     THEN RawGetList(raw_data, hint_key)
     ELSE RawGet(raw_data, hint_key)]

\* the message the model constructor reports for one field, "" when the
\* value is accepted
FieldError(hint, v) ==
  LET optional == hint.k = "Union" /\ \E i \in 1..Len(hint.args) : hint.args[i] = NoneType
      base == IF hint.k = "Union"
              THEN (SelectSeq(hint.args, LAMBDA arg : arg # NoneType))[1]
              ELSE hint
  IN IF v = PyNone
     THEN IF optional THEN "" ELSE "none is not an allowed value"
     ELSE IF base = PyType("int")
          THEN IF v = PyStr("1") THEN "" ELSE "value is not a valid integer"
     ELSE IF base.k = "alias"
          THEN IF v.k = "list" THEN "" ELSE "value is not a valid list"
     ELSE ""

\* err.errors() of the ValidationError raised by schema(**cleaned_data),
\* as the mapping loc[0] -> msg; empty when the model is built
ModelErrors(schema, cleaned_data) ==
  LET bad == {f \in DOMAIN schema.hints : FieldError(schema.hints[f], cleaned_data[f]) # ""}
  IN [f \in bad |-> PyStr(FieldError(schema.hints[f], cleaned_data[f]))]

\* a faulty variant of ErrorResponse with another status; C9 tells the two
\* apart
ErrorResponse_422(errors) ==
  [k |-> "response", status |-> 422, body |-> PyDict(("detail" :> PyDict(errors)))]

\* json({"detail": {...}}, status=400)
ErrorResponse(errors) ==
  [k |-> "response", status |-> 400, body |-> PyDict(("detail" :> PyDict(errors)))]

\* the model instance schema(**cleaned_data)
ModelInstance(name, cleaned_data) == [k |-> "model", name |-> name, data |-> PyDict(cleaned_data)]

\* ---------------------------------------------------------------- state
VARIABLES call, res, out, pc, query, body, request, passed, events, retval, calls

engineVars == <<call, res, out>>
wrapperVars == <<pc, query, body, request, passed, events, retval, calls>>
vars == <<call, res, out, pc, query, body, request, passed, events, retval, calls>>

Idle == [op |-> "none"]

Init ==
  /\ call = Idle
  /\ res = PyNone
  /\ out = PyNone
  /\ pc = "idle"
  /\ query = PyNone
  /\ body = PyNone
  /\ request = PyNone
  /\ passed = EmptyDict
  /\ events = <<>>
  /\ retval = PyNone
  /\ calls = 0

\* a caller evaluates Schema.make(value, **kwargs)
MakeCall ==
  \E value \in MakeInputs, kwargs \in Overrides :
    /\ call = Idle
    /\ call' = [op |-> "make", value |-> value, kwargs |-> kwargs]
    /\ res' = make(value, kwargs)
    /\ out' = PyNone
    /\ UNCHANGED wrapperVars

\* a caller evaluates Object.make(value, **kwargs) on a model class
ObjectMakeCall ==
  \E value \in Models, kwargs \in {EmptyDict, ("nullable" :> PyBool(TRUE))} :
    /\ call = Idle
    /\ call' = [op |-> "Object.make", value |-> value, kwargs |-> kwargs]
    /\ res' = ObjectMake(value, kwargs)
    /\ out' = PyNone
    /\ UNCHANGED wrapperVars

\* a caller evaluates Cls(**attrs); Array is given its required items
ConstructCall ==
  \E cls \in Classes, attrs \in AttrMaps :
    /\ call = Idle
    /\ cls = "Array" => "items" \in DOMAIN attrs
    /\ call' = [op |-> "construct", cls |-> cls, kwargs |-> attrs]
    /\ res' = Construct(cls, attrs)
    /\ out' = PyNone
    /\ UNCHANGED wrapperVars

\* a caller evaluates res.serialize() on the node built last
SerializeCall ==
  /\ IsNode(res)
  /\ out = PyNone
  /\ out' = serialize(res)
  /\ UNCHANGED <<call, res>>
  /\ UNCHANGED wrapperVars

Next ==
  \/ MakeCall
  \/ ObjectMakeCall
  \/ ConstructCall
  \/ SerializeCall

Spec == Init /\ [][Next]_vars

\* ------------------------------------------ validate_schema(body, query)
\* decorated_function is entered: the request is looked up in args
Enter ==
  \E q \in {PyNone, QueryModel}, b \in {PyNone, BodyModel},
     shape \in {"request_first", "self_request", "no_request"},
     a \in QueryData, f \in FormData :
    /\ pc = "idle"
    /\ query' = q
    /\ body' = b
    /\ IF shape = "no_request"
       THEN /\ request' = PyNone
            /\ retval' = Raise("SanicException")
            /\ pc' = "done"
       ELSE /\ request' = [k |-> "request", shape |-> shape, args |-> a, form |-> f]
            /\ retval' = PyNone
            /\ pc' = "query"
    /\ UNCHANGED <<passed, events, calls>>
    /\ UNCHANGED engineVars

\* if query: kwargs["query"] = query(**clean_data(query, request.args))
BuildQuery ==
  /\ pc = "query"
  /\ IF query = PyNone
     THEN /\ pc' = "body"
          /\ UNCHANGED <<passed, events, retval>>
     ELSE LET cleaned_data == clean_data(query, request.args)
              errors == ModelErrors(query, cleaned_data)
          IN IF DOMAIN errors # {}
             THEN /\ retval' = ErrorResponse(errors)
                  /\ pc' = "done"
                  /\ UNCHANGED <<passed, events>>
             ELSE /\ passed' = ("query" :> ModelInstance("query", cleaned_data)) @@ passed
                  /\ events' = Append(events, "query")
                  /\ pc' = "body"
                  /\ UNCHANGED retval
  /\ UNCHANGED <<query, body, request, calls>>
  /\ UNCHANGED engineVars

\* if body: kwargs["body"] = body(**clean_data(body, request.form))
BuildBody ==
  /\ pc = "body"
  /\ IF body = PyNone
     THEN /\ pc' = "handler"
          /\ UNCHANGED <<passed, events, retval>>
     ELSE LET cleaned_data == clean_data(body, request.form)
              errors == ModelErrors(body, cleaned_data)
          IN IF DOMAIN errors # {}
             THEN /\ retval' = ErrorResponse(errors)
                  /\ pc' = "done"
                  /\ UNCHANGED <<passed, events>>
             ELSE /\ passed' = ("body" :> ModelInstance("body", cleaned_data)) @@ passed
                  /\ events' = Append(events, "body")
                  /\ pc' = "handler"
                  /\ UNCHANGED retval
  /\ UNCHANGED <<query, body, request, calls>>
  /\ UNCHANGED engineVars

\* retval = f(*args, **kwargs)
InvokeHandler ==
  /\ pc = "handler"
  /\ calls' = calls + 1
  /\ events' = Append(events, "handler")
  /\ retval' = [k |-> "response", status |-> 200, body |-> PyDict([key \in DOMAIN passed |-> PyStr("seen")])]
  /\ pc' = "done"
  /\ UNCHANGED <<query, body, request, passed>>
  /\ UNCHANGED engineVars

NextValidate ==
  \/ Enter
  \/ BuildQuery
  \/ BuildBody
  \/ InvokeHandler

SpecValidate == Init /\ [][NextValidate]_vars

\* ================================================================ claims
Has(f, key, v) == key \in DOMAIN f /\ f[key] = v

\* the (type, format) pair a node stores; "none" for a key it does not store
PairOf(node) ==
  [type |-> IF "type" \in DOMAIN node.fields THEN node.fields["type"].s ELSE "none",
   format |-> IF "format" \in DOMAIN node.fields THEN node.fields["format"].s ELSE "none"]

\* the fixed table of primitive types
FixedPair(name) ==
  CASE name = "bool" -> [type |-> "boolean", format |-> "none"]
    [] name = "int" -> [type |-> "integer", format |-> "int32"]
    [] name = "float" -> [type |-> "number", format |-> "float"]
    [] name = "str" -> [type |-> "string", format |-> "none"]
    [] name = "bytes" -> [type |-> "string", format |-> "byte"]
    [] name = "bytearray" -> [type |-> "string", format |-> "binary"]
    [] name = "date" -> [type |-> "string", format |-> "date"]
    [] name = "time" -> [type |-> "string", format |-> "time"]
    [] name = "datetime" -> [type |-> "string", format |-> "date-time"]
    [] name = "UUID" -> [type |-> "string", format |-> "uuid"]

\* C1: Schema.make of each of the ten primitive types yields a node whose
\* (type, format) pair is the fixed one of the table.
C1_PrimitiveTable ==
  (call.op = "make" /\ call.value \in ScalarTypes
     /\ DOMAIN call.kwargs \cap {"type", "format"} = {})
    => (IsNode(res) /\ PairOf(res) = FixedPair(call.value.name))

C1_Witness ==
  /\ call.op = "make"
  /\ call.value = PyType("bytearray")
  /\ call.kwargs = EmptyDict
  /\ IsNode(res)
  /\ Has(res.fields, "format", PyStr("binary"))

NonNone(args) == SelectSeq(args, LAMBDA arg : arg # NoneType)
IsOptional(v) == v.k = "Union" /\ \E i \in 1..Len(v.args) : v.args[i] = NoneType

\* C2: Schema.make(Optional[T]) serializes to the serialization of
\* Schema.make(T) with nullable=true merged in, for every scalar T
\* (Optional[int] gives type integer, format int32, nullable true); with
\* more than one alternative left the node has oneOf over the reflected
\* alternatives and nullable=true.
C2_Optional ==
  (call.op = "make" /\ IsOptional(call.value) /\ call.kwargs = EmptyDict)
    => LET alts == NonNone(call.value.args)
       IN /\ (Len(alts) = 1 /\ alts[1] \in ScalarTypes /\ out # PyNone)
               => out = PyDict(("nullable" :> PyBool(TRUE))
                                 @@ serialize(make(alts[1], EmptyDict)).d)
          /\ (alts = <<PyType("int")>> /\ out # PyNone)
               => out = PyDict(("type" :> PyStr("integer")) @@ ("format" :> PyStr("int32"))
                                 @@ ("nullable" :> PyBool(TRUE)))
          /\ Len(alts) > 1
               => /\ IsNode(res)
                  /\ Has(res.fields, "nullable", PyBool(TRUE))
                  /\ Has(res.fields, "oneOf",
                         PyList([i \in 1..Len(alts) |-> make(alts[i], EmptyDict)]))

C2_Witness ==
  /\ call.op = "make"
  /\ call.value = PyUnion(<<PyType("str"), NoneType>>)
  /\ call.kwargs = EmptyDict
  /\ out = PyDict(("type" :> PyStr("string")) @@ ("nullable" :> PyBool(TRUE)))

\* the key is explicitly listed in the class's __nullable__
Listed(cls, key) == NullableOf(cls).k = "list" /\ InList(PyStr(key), NullableOf(cls))

\* C3 (as stated): serialize() retains a key only if its serialized value is
\* truthy or the key is listed in __nullable__; every other key with a
\* falsy value is omitted.
C3_RetainedOnlyTruthyOrListed ==
  (IsNode(res) /\ out # PyNone)
    => \A key \in DOMAIN res.fields :
         key \in DOMAIN out.d
           => (Truthy(out.d[key]) \/ Listed(res.cls, key))

\* __nullable__ is a list that is empty or lists the key
EmptyOrListed(cls, key) ==
  /\ NullableOf(cls).k = "list"
  /\ (Len(NullableOf(cls).items) = 0 \/ InList(PyStr(key), NullableOf(cls)))

\* C3 (amended): serialize() retains a key only if its value, as returned by
\* _serialize and before an Enum member is replaced by its value, is truthy,
\* or __nullable__ is a list that is empty or lists the key; every other key
\* with a falsy value is omitted.
C3_RetainedOnlyTruthyOrEmptyOrListed ==
  (IsNode(res) /\ out # PyNone)
    => \A key \in DOMAIN res.fields :
         key \in DOMAIN out.d
           => (Truthy(serialize_(res.fields[key])) \/ EmptyOrListed(res.cls, key))

C3_Witness ==
  /\ call.op = "construct"
  /\ IsNode(res)
  /\ res.cls = "Schema"
  /\ out # PyNone
  /\ Has(res.fields, "nullable", PyBool(FALSE))
  /\ Has(res.fields, "enum", PyList(<<>>))
  /\ Has(out.d, "nullable", PyBool(FALSE))
  /\ Has(out.d, "enum", PyList(<<>>))

\* C4: for every class and attribute mapping, construction does not raise
\* and the stored fields, and so the keys of serialize(), are among the
\* attribute names declared for the class and the "x-"-prefixed keys.
C4_ConstructNeverRaises ==
  call.op = "construct"
    => /\ ~IsRaise(res)
       /\ \A key \in DOMAIN res.fields :
            key \in NodeProperties(call.cls) \/ StartsWithXDash(key)
       /\ out # PyNone => DOMAIN out.d \subseteq DOMAIN res.fields

MemberTypes(members) == {TypeOf(members[i]) : i \in 1..Len(members)}

\* C5: Schema.make of an Enum class whose member values all have type int
\* yields a node holding exactly type integer, format int32 and enum, the
\* ordered list of member values; with member values of more than one type
\* it yields a node of type string with the same enum list.
C5_Enum ==
  (call.op = "make" /\ call.value.k = "enumclass")
    => LET members == call.value.members
       IN /\ MemberTypes(members) = {"int"}
               => /\ IsNode(res)
                  /\ res.fields = ("type" :> PyStr("integer")) @@ ("format" :> PyStr("int32"))
                                    @@ ("enum" :> PyList(members))
          /\ Cardinality(MemberTypes(members)) > 1
               => /\ IsNode(res)
                  /\ Has(res.fields, "type", PyStr("string"))
                  /\ Has(res.fields, "enum", PyList(members))

C5_Witness ==
  /\ call.op = "make"
  /\ call.value = PyEnum(<<PyInt(0), PyStr("x")>>)
  /\ IsNode(res)
  /\ Has(res.fields, "type", PyStr("string"))
  /\ Has(res.fields, "enum", PyList(<<PyInt(0), PyStr("x")>>))

\* C6: for every input shape of Schema.make, the keyword override
\* nullable=True is present at the top level of the node returned.
C6_OverrideAtTopLevel ==
  (call.op = "make" /\ call.kwargs = ("nullable" :> PyBool(TRUE)))
    => (IsNode(res) /\ Has(res.fields, "nullable", PyBool(TRUE)))

\* C7 (as stated): Schema.make of an empty list serializes to an array
\* schema marked nullable at its top level.
C7_EmptyListNullableAtTop ==
  (call.op = "make" /\ call.value = PyList(<<>>) /\ call.kwargs = EmptyDict /\ out # PyNone)
    => /\ Has(out.d, "type", PyStr("array"))
       /\ Has(out.d, "nullable", PyBool(TRUE))
       /\ "items" \in DOMAIN out.d

\* C7 (amended): Schema.make of an empty list serializes to an array schema
\* whose items schema, not the array itself, is marked nullable:
\* {type: array, items: {nullable: true}}.
C7_EmptyListNullableItems ==
  (call.op = "make" /\ call.value = PyList(<<>>) /\ call.kwargs = EmptyDict /\ out # PyNone)
    => out = PyDict(("type" :> PyStr("array"))
                      @@ ("items" :> PyDict(("nullable" :> PyBool(TRUE)))))

C7_Witness ==
  /\ call.op = "make"
  /\ call.value = PyList(<<>>)
  /\ call.kwargs = EmptyDict
  /\ out # PyNone
  /\ "items" \in DOMAIN out.d

\* the properties of an Object node; none when the key is not stored
PropertiesOf(node) ==
  IF "properties" \in DOMAIN node.fields THEN node.fields["properties"].d ELSE EmptyDict

\* C8: Object.make over a model with __fields__ leaves out every field whose
\* extracted metadata has a truthy disable_doc, and has every other field
\* with its metadata (default_value renamed to default) merged into its node.
C8_FieldMetadata ==
  call.op = "Object.make"
    => /\ IsNode(res)
       /\ \A key \in {"a", "b"} :
            LET info == call.value.fields.d[key]
                extra == IF info.extra.k = "dict" THEN info.extra.d ELSE EmptyDict
                hidden == "disable_doc" \in DOMAIN extra /\ Truthy(extra["disable_doc"])
                node == PropertiesOf(res)[key]
            IN IF hidden THEN key \notin DOMAIN PropertiesOf(res)
               ELSE /\ key \in DOMAIN PropertiesOf(res)
                    /\ Truthy(info.description)
                         => Has(node.fields, "description", info.description)
                    /\ "default_value" \in DOMAIN extra
                         => Has(node.fields, "default", extra["default_value"])
                    /\ "x-tag" \in DOMAIN extra
                         => Has(node.fields, "x-tag", extra["x-tag"])

\* the errors of the first model whose construction fails; empty if none
FirstErrors ==
  LET qerr == IF query = PyNone THEN EmptyDict
              ELSE ModelErrors(query, clean_data(query, request.args))
      berr == IF body = PyNone THEN EmptyDict
              ELSE ModelErrors(body, clean_data(body, request.form))
  IN IF DOMAIN qerr # {} THEN qerr ELSE berr

\* the order in which the wrapper builds the models and calls the handler
FullOrder ==
  (IF query = PyNone THEN <<>> ELSE <<"query">>)
    \o (IF body = PyNone THEN <<>> ELSE <<"body">>)
    \o <<"handler">>

\* C9: in the handler wrapped by validate_schema, a validation error of the
\* query or body model gives a 400 response whose detail maps each offending
\* field to its message, and the handler is never invoked; without a
\* validation error the handler is invoked exactly once, after the query
\* model and then the body model were built and stored under the query and
\* body keyword arguments.
C9_ValidateSchema ==
  /\ calls <= 1
  /\ \E n \in 0..Len(FullOrder) : events = SubSeq(FullOrder, 1, n)
  /\ (pc = "done" /\ request # PyNone)
       => IF DOMAIN FirstErrors # {}
          THEN /\ retval.k = "response"
               /\ retval.status = 400
               /\ retval.body = PyDict(("detail" :> PyDict(FirstErrors)))
               /\ calls = 0
          ELSE /\ calls = 1
               /\ events = FullOrder
               /\ DOMAIN passed = {e \in {"query", "body"} : \E i \in 1..Len(events) : events[i] = e}
               /\ DOMAIN retval.body.d = DOMAIN passed

C9_Witness ==
  /\ pc = "done"
  /\ query # PyNone
  /\ body # PyNone
  /\ events = <<"query">>
  /\ retval.k = "response"
  /\ retval.status = 400
  /\ "name" \in DOMAIN retval.body.d["detail"].d
  /\ calls = 0

DefaultKinds == {"bool", "int", "float", "str", "bytes", "bytearray"}

\* C10 (as stated): Schema.make of a runtime value of a scalar kind yields
\* the (type, format) of the value's type and carries the value as default.
C10_ValueCarriesDefault ==
  (call.op = "make" /\ call.value \in ScalarValues
     /\ DOMAIN call.kwargs \cap {"type", "format", "default"} = {})
    => /\ IsNode(res)
       /\ PairOf(res) = FixedPair(TypeOf(call.value))
       /\ Has(res.fields, "default", call.value)

\* C10 (amended): Schema.make of a runtime value of kind bool, int, float,
\* str, bytes or bytearray yields the (type, format) of the value's type and
\* carries the value as default; for a value of kind date, time, datetime or
\* UUID it yields the same (type, format) and carries no default.
C10_ValueDefaultByKind ==
  (call.op = "make" /\ call.value \in ScalarValues
     /\ DOMAIN call.kwargs \cap {"type", "format", "default"} = {})
    => /\ IsNode(res)
       /\ PairOf(res) = FixedPair(TypeOf(call.value))
       /\ IF TypeOf(call.value) \in DefaultKinds
          THEN Has(res.fields, "default", call.value)
          ELSE "default" \notin DOMAIN res.fields

C10_Witness ==
  /\ call.op = "make"
  /\ call.value = PyDateTime("2020-01-02T10:30")
  /\ call.kwargs = EmptyDict
  /\ IsNode(res)
  /\ PairOf(res) = [type |-> "string", format |-> "date-time"]
  /\ "default" \notin DOMAIN res.fields

====
